---- MODULE Spec2Model ----
(***************************************************************************)
(* Model of backend/server.py (BlankDigi Suite API): the users table, the  *)
(* request handlers that read and write it, and the responses they give.   *)
(*                                                                         *)
(* Every handler opens its own connection (autocommit off, InnoDB default  *)
(* REPEATABLE READ).  A plain SELECT is a non-locking read of committed    *)
(* data; an UPDATE/INSERT holds its row lock until the commit that follows *)
(* it, so statement+commit is one step.  A handler that reads and then     *)
(* writes is therefore two steps, and the requests of other workers on the *)
(* same database may run between them.  (Within one process the handlers   *)
(* are coroutines that never await between the two statements; Procs are   *)
(* worker processes or replicas of the service.)                           *)
(***************************************************************************)
EXTENDS Integers, Sequences, FiniteSets, TLC

\* ---------------------------------------------------------------- bounds
NumProcs == 2
MaxUuid == 2
MaxTime == 61
MaxUsers == 2

\* ------------------------------------------------------ program constants
ACCESS_TOKEN_EXPIRE_MINUTES == 60
RESET_TOKEN_MINUTES == 15
\* "for _ in range(10)" in startup_init_db
STARTUP_ATTEMPTS == 10

Procs == 1..NumProcs
Emails == {"a@x.com", "b@x.com"}
Passwords == {<<"pw", 1>>, <<"pw", 2>>}
Names == {"A"}
\* the clock is read before the expiry of a reset token and of a session
\* token, or after both
TickSteps == {ACCESS_TOKEN_EXPIRE_MINUTES + 1}

\* SQL NULL / Python None
NULL == <<>>

\* str(uuid.uuid4()): the n-th value drawn, all distinct
uuid4(n) == <<"uuid", n>>

\* a DATETIME value, minutes since start
datetime(t) == <<"dt", t>>

\* pwd_context.hash / pwd_context.verify (bcrypt; the salt is left out)
get_password_hash(password) == <<"bcrypt", password>>

verify_password(plain_password, hashed_password) ==
    /\ hashed_password # NULL
    /\ hashed_password[1] = "bcrypt"
    /\ hashed_password[2] = plain_password

\* jwt.encode({"sub": subject_email, "exp": now + 60 min})
create_access_token(subject_email, t) ==
    <<subject_email, t + ACCESS_TOKEN_EXPIRE_MINUTES>>

\* a bearer token that SECRET_KEY has not signed
BadToken == <<"", 0>>

\* jwt.decode without the test of "exp"
jwt_decode_no_exp(token, t) ==
    IF token = BadToken THEN NULL ELSE <<token[1]>>

\* jwt.decode(token, SECRET_KEY): the payload's "sub", NULL for JWTError
\* (bad signature, or "exp" earlier than the clock)
jwt_decode(token, t) ==
    IF token = BadToken \/ token[2] < t THEN NULL ELSE <<token[1]>>

VARIABLES users, now, nextUuid, requireVerification, pc, req, loc, out,
          consumedV, consumedR, session, boot, attempt, dbUp

vars == <<users, now, nextUuid, requireVerification, pc, req, loc, out,
          consumedV, consumedR, session, boot, attempt, dbUp>>

\* the startup handler's state and the reachability of the MySQL server
startup == <<boot, attempt, dbUp>>

\* ------------------------------------------------------------ responses
Response(status, kind, text, bearer, token) ==
    [status |-> status, kind |-> kind, text |-> text,
     www_authenticate |-> bearer, access_token |-> token, profile |-> NULL]

NoResp == Response(0, "", "", FALSE, NULL)

InvalidCredentials ==
    Response(401, "detail", "Incorrect email or password", TRUE, NULL)

NotVerified == Response(401, "detail", "Email not verified.", TRUE, NULL)

TokenResponse(token) == Response(200, "access_token", "bearer", FALSE, token)

DuplicateIdentity ==
    Response(400, "detail", "Email already registered", FALSE, NULL)

RegisterOk(require) ==
    Response(200, "message",
             IF require THEN "Registration successful. Please verify your email."
                        ELSE "Registration successful.",
             FALSE, NULL)

InvalidVerificationToken ==
    Response(400, "detail", "Invalid verification token", FALSE, NULL)

VerifiedRedirect == Response(307, "redirect", "verified=true", FALSE, NULL)

ForgotOk ==
    Response(200, "message", "If email exists, a reset token has been sent.",
             FALSE, NULL)

InvalidToken == Response(400, "detail", "Invalid token", FALSE, NULL)

TokenExpired == Response(400, "detail", "Token expired", FALSE, NULL)

ResetOk == Response(200, "message", "Password reset successfully", FALSE, NULL)

SocialRedirect(token) == Response(307, "redirect", "token", FALSE, token)

InvalidSession ==
    Response(401, "detail", "Could not validate credentials", TRUE, NULL)

\* {"id", "email", "full_name", "is_verified"} of row id
ProfileResponse(us, id) ==
    [Response(200, "profile", "", FALSE, NULL) EXCEPT
       !.profile = <<id, us[id].email, us[id].full_name, us[id].is_verified>>]

\* "Google token exchange failed" / "GitHub token exchange failed"
ProviderError(provider) ==
    Response(400, "detail",
             IF provider = "google" THEN "Google token exchange failed"
                                    ELSE "GitHub token exchange failed",
             FALSE, NULL)

\* "Google did not return email" / "Could not retrieve email from GitHub"
MissingEmailClaim(provider) ==
    Response(400, "detail",
             IF provider = "google" THEN "Google did not return email"
                                    ELSE "Could not retrieve email from GitHub",
             FALSE, NULL)

\* {"status": "ok", "service": "suite-api"}
HealthOk == Response(200, "status", "ok", FALSE, NULL)

\* get_db_connection: HTTPException(500, "Database connection failed: ...")
StoreUnavailable ==
    Response(500, "detail", "Database connection failed", FALSE, NULL)

\* an exception no handler catches: Starlette answers 500
InternalServerError ==
    Response(500, "text", "Internal Server Error", FALSE, NULL)

\* ------------------------------------------------------------- requests
Request(op, email, password, full_name, token) ==
    [op |-> op, email |-> email, password |-> password,
     full_name |-> full_name, token |-> token]

NoReq == Request("none", "", NULL, "", NULL)

NoOut == [req |-> NoReq, resp |-> NoResp]

\* ------------------------------------------------------- the users table
Row(email, hashed_password, full_name, is_verified, verification_token) ==
    [email |-> email, hashed_password |-> hashed_password,
     full_name |-> full_name, reset_token |-> NULL,
     reset_token_expires |-> NULL, is_verified |-> is_verified,
     verification_token |-> verification_token]

\* the social INSERT with is_verified FALSE
SocialRowUnverified(email, hashed_password, full_name) ==
    Row(email, hashed_password, full_name, FALSE, NULL)

\* INSERT INTO users (email, hashed_password, full_name, is_verified)
\* VALUES (%s, %s, %s, True)
SocialRow(email, hashed_password, full_name) ==
    Row(email, hashed_password, full_name, TRUE, NULL)

\* SELECT ... WHERE email = e; fetchone(): the id of the first row, 0 if none
find_by_email(us, e) ==
    LET ids == {i \in DOMAIN us : us[i].email = e}
    IN IF ids = {} THEN 0 ELSE CHOOSE i \in ids : \A j \in ids : i <= j

\* SELECT ... WHERE verification_token = t
find_by_verification_token(us, t) ==
    LET ids == {i \in DOMAIN us : us[i].verification_token = t}
    IN IF ids = {} THEN 0 ELSE CHOOSE i \in ids : \A j \in ids : i <= j

\* SELECT ... WHERE reset_token = t
find_by_reset_token(us, t) ==
    LET ids == {i \in DOMAIN us : us[i].reset_token = t}
    IN IF ids = {} THEN 0 ELSE CHOOSE i \in ids : \A j \in ids : i <= j

\* the table without its UNIQUE index
UniqueViolationOff(us, e) == FALSE

\* email VARCHAR(255) UNIQUE: an INSERT of e is rejected (IntegrityError)
UniqueViolation(us, e) == \E i \in DOMAIN us : us[i].email = e

\* the verification UPDATE without "verification_token = NULL"
VerifySetKeepToken(u) == [u EXCEPT !.is_verified = TRUE]

\* UPDATE users SET is_verified = TRUE, verification_token = NULL
VerifySet(u) == [u EXCEPT !.is_verified = TRUE, !.verification_token = NULL]

\* the forgot-password UPDATE without "reset_token_expires = %s"
ForgotSetTokenOnly(u, token, expires) == [u EXCEPT !.reset_token = token]

\* a forgot-password UPDATE that keeps a pending pair
ForgotSetKeepPending(u, token, expires) ==
    [u EXCEPT !.reset_token = IF @ = NULL THEN token ELSE @,
              !.reset_token_expires = IF @ = NULL THEN expires ELSE @]

\* UPDATE users SET reset_token = %s, reset_token_expires = %s
ForgotSet(u, token, expires) ==
    [u EXCEPT !.reset_token = token, !.reset_token_expires = expires]

\* the reset UPDATE without "reset_token_expires = NULL"
ResetSetKeepExpiry(u, hashed_password) ==
    [u EXCEPT !.hashed_password = hashed_password, !.reset_token = NULL]

\* the reset UPDATE without "reset_token = NULL"
ResetSetKeepToken(u, hashed_password) ==
    [u EXCEPT !.hashed_password = hashed_password]

\* the reset UPDATE without "hashed_password = %s"
ResetSetKeepHash(u, hashed_password) ==
    [u EXCEPT !.reset_token = NULL, !.reset_token_expires = NULL]

\* UPDATE users SET hashed_password = %s, reset_token = NULL,
\*                  reset_token_expires = NULL
ResetSet(u, hashed_password) ==
    [u EXCEPT !.hashed_password = hashed_password, !.reset_token = NULL,
              !.reset_token_expires = NULL]

\* get_current_user: the id of the token's user, 0 for credentials_exception
get_current_user(us, token, t) ==
    LET payload == jwt_decode(token, t)
    IN IF payload = NULL THEN 0 ELSE find_by_email(us, payload[1])

\* a reset whose expiry test always passes
token_expired_never(expires, t) == FALSE

\* "if not expires or expires < datetime.utcnow()"
token_expired(expires, t) == expires = NULL \/ expires[2] < t

\* ----------------------------------------------------------------- Init
Init ==
    /\ users = <<>>
    /\ now = 0
    /\ nextUuid = 1
    /\ requireVerification \in BOOLEAN
    /\ pc = [p \in Procs |-> "idle"]
    /\ req = [p \in Procs |-> NoReq]
    /\ loc = [p \in Procs |-> 0]
    /\ out = NoOut
    /\ consumedV = {}
    /\ consumedR = {}
    /\ session = NULL
    /\ boot = "serving"
    /\ attempt = 1
    /\ dbUp = TRUE

\* uuids still to be drawn by requests already past their SELECT
UuidPending ==
    Cardinality({q \in Procs : pc[q] \in {"register_insert", "forgot_update",
                                          "social_insert"}})

UuidBudget == nextUuid + UuidPending <= MaxUuid

\* tokens a client can present: every uuid drawn so far and one never issued
PresentableTokens == {uuid4(n) : n \in 1..nextUuid}

\* the handler of worker p returns (or raises): request r is answered with a.
\* out is the response being sent; the handlers never read it, so the next
\* step of any handler is taken after it has left (Respond).
Finish(p, r, a) ==
    /\ boot = "serving"
    /\ dbUp
    /\ out = NoOut
    /\ pc' = [pc EXCEPT ![p] = "idle"]
    /\ req' = [req EXCEPT ![p] = NoReq]
    /\ loc' = [loc EXCEPT ![p] = 0]
    /\ out' = [req |-> r, resp |-> a]
    /\ UNCHANGED <<session, startup>>

\* no handler is between its SELECT and its write
Quiet == \A q \in Procs : pc[q] = "idle"

\* the handler of worker p answers after its SELECT, without writing.  Such a
\* request only reads the table, and a handler in flight has not written yet:
\* the table it reads in a state with handlers in flight is the table of the
\* state in which they have not started, so it is taken when none is.
AnswerAtOnce(p, r, a) ==
    /\ Quiet
    /\ Finish(p, r, a)

\* the handler of worker p has read row id and goes on to its write
Begin(p, r, state, id) ==
    /\ boot = "serving"
    /\ dbUp
    /\ req' = [req EXCEPT ![p] = r]
    /\ pc' = [pc EXCEPT ![p] = state]
    /\ out = NoOut
    /\ loc' = [loc EXCEPT ![p] = id]
    /\ UNCHANGED <<out, session, startup>>

\* -------------------------------------------------------------- /token
\* a login that tells an unknown email from a wrong password
LoginResponseEnumerating(us, email, password, require, t) ==
    LET id == find_by_email(us, email)
    IN IF id = 0
       THEN Response(401, "detail", "Unknown email", TRUE, NULL)
       ELSE IF ~verify_password(password, us[id].hashed_password)
            THEN InvalidCredentials
            ELSE IF require /\ ~us[id].is_verified
                 THEN NotVerified
                 ELSE TokenResponse(create_access_token(us[id].email, t))

\* a login without the REQUIRE_EMAIL_VERIFICATION test
LoginResponseNoVerifiedTest(us, email, password, require, t) ==
    LET id == find_by_email(us, email)
    IN IF id = 0 \/ ~verify_password(password, us[id].hashed_password)
       THEN InvalidCredentials
       ELSE TokenResponse(create_access_token(us[id].email, t))

LoginResponse(us, email, password, require, t) ==
    LET id == find_by_email(us, email)
    IN IF id = 0 \/ ~verify_password(password, us[id].hashed_password)
       THEN InvalidCredentials
       ELSE IF require /\ ~us[id].is_verified
            THEN NotVerified
            ELSE TokenResponse(create_access_token(us[id].email, t))

login_for_access_token(p) ==
    /\ pc[p] = "idle"
    /\ \E e \in Emails, pw \in Passwords :
         AnswerAtOnce(p, Request("login", e, pw, "", NULL),
                LoginResponse(users, e, pw, requireVerification, now))
    /\ UNCHANGED <<users, now, nextUuid, requireVerification,
                   consumedV, consumedR>>

\* ----------------------------------------------------------- /register
register_select(p) ==
    /\ pc[p] = "idle"
    /\ \E e \in Emails, pw \in Passwords, n \in Names :
         LET r == Request("register", e, pw, n, NULL)
         IN IF find_by_email(users, e) # 0
            THEN AnswerAtOnce(p, r, DuplicateIdentity)
            ELSE /\ UuidBudget
                 /\ Len(users) < MaxUsers
                 /\ Begin(p, r, "register_insert", 0)
    /\ UNCHANGED <<users, now, nextUuid, requireVerification,
                   consumedV, consumedR>>

register_insert(p) ==
    /\ pc[p] = "register_insert"
    /\ LET verification_token ==
               IF requireVerification THEN uuid4(nextUuid) ELSE NULL
           is_verified == ~requireVerification
           row == Row(req[p].email, get_password_hash(req[p].password),
                      req[p].full_name, is_verified, verification_token)
       IN /\ nextUuid' = IF requireVerification THEN nextUuid + 1 ELSE nextUuid
          /\ IF UniqueViolation(users, req[p].email)
             THEN /\ Finish(p, req[p], InternalServerError)
                  /\ UNCHANGED users
             ELSE /\ users' = Append(users, row)
                  /\ Finish(p, req[p], RegisterOk(requireVerification))
    /\ UNCHANGED <<now, requireVerification, consumedV, consumedR>>

\* ------------------------------------------------------- /verify-email
verify_email_select(p) ==
    /\ pc[p] = "idle"
    /\ \E t \in PresentableTokens :
         LET r == Request("verify_email", "", NULL, "", t)
             id == find_by_verification_token(users, t)
         IN IF id = 0
            THEN AnswerAtOnce(p, r, InvalidVerificationToken)
            ELSE Begin(p, r, "verify_update", id)
    /\ UNCHANGED <<users, now, nextUuid, requireVerification,
                   consumedV, consumedR>>

verify_email_update(p) ==
    /\ pc[p] = "verify_update"
    /\ users' = [users EXCEPT ![loc[p]] = VerifySet(@)]
    /\ consumedV' = consumedV \cup {req[p].token}
    /\ Finish(p, req[p], VerifiedRedirect)
    /\ UNCHANGED <<now, nextUuid, requireVerification, consumedR>>

\* ----------------------------------------------------- /forgot-password
forgot_password_select(p) ==
    /\ pc[p] = "idle"
    /\ \E e \in Emails :
         LET r == Request("forgot_password", e, NULL, "", NULL)
             id == find_by_email(users, e)
         IN IF id = 0
            THEN AnswerAtOnce(p, r, ForgotOk)
            ELSE /\ UuidBudget
                 /\ Begin(p, r, "forgot_update", id)
    /\ UNCHANGED <<users, now, nextUuid, requireVerification,
                   consumedV, consumedR>>

forgot_password_update(p) ==
    /\ pc[p] = "forgot_update"
    /\ LET token == uuid4(nextUuid)
           expires == datetime(now + RESET_TOKEN_MINUTES)
       IN users' = [users EXCEPT ![loc[p]] = ForgotSet(@, token, expires)]
    /\ nextUuid' = nextUuid + 1
    /\ Finish(p, req[p], ForgotOk)
    /\ UNCHANGED <<now, requireVerification, consumedV, consumedR>>

\* ------------------------------------------------------ /reset-password
reset_password_select(p) ==
    /\ pc[p] = "idle"
    /\ \E t \in PresentableTokens, pw \in Passwords :
         LET r == Request("reset_password", "", pw, "", t)
             id == find_by_reset_token(users, t)
         IN IF id = 0
            THEN AnswerAtOnce(p, r, InvalidToken)
            ELSE IF token_expired(users[id].reset_token_expires, now)
                 THEN AnswerAtOnce(p, r, TokenExpired)
                 ELSE Begin(p, r, "reset_update", id)
    /\ UNCHANGED <<users, now, nextUuid, requireVerification,
                   consumedV, consumedR>>

reset_password_update(p) ==
    /\ pc[p] = "reset_update"
    /\ users' = [users EXCEPT
                   ![loc[p]] = ResetSet(@, get_password_hash(req[p].password))]
    /\ consumedR' = consumedR \cup {req[p].token}
    /\ Finish(p, req[p], ResetOk)
    /\ UNCHANGED <<now, nextUuid, requireVerification, consumedV>>

\* ------------- OAuth callbacks, from the provider's email claim onwards
\* the HTTP phase of a callback that ends without an email.  What the
\* provider does with the authorization code:
\*   exchange_timeout   the token endpoint does not answer within 20 s
\*   exchange_not_json  the token endpoint's body is not JSON
\*   exchange_no_token  its body is a JSON object without "access_token"
\*                      (the error object of a non-2xx answer, or a 2xx one)
\*   profile_timeout, profile_not_json   the same for the profile endpoint
\*   profile_rejected   the profile endpoint answers non-2xx with its JSON
\*                      error object; GitHub then rejects /user/emails too
\*   profile_no_email   the profile has no email (GitHub: and /user/emails
\*                      lists no primary verified address)
\*   emails_rejected    GitHub only: the profile has no email and
\*                      /user/emails answers non-2xx with a JSON error object
Providers == {"google", "github"}

ProviderOutcomes(provider) ==
    {"exchange_timeout", "exchange_not_json", "exchange_no_token",
     "profile_timeout", "profile_not_json", "profile_rejected",
     "profile_no_email"}
    \cup IF provider = "github" THEN {"emails_rejected"} ELSE {}

\* auth_google_callback / auth_github_callback up to the email test.  The
\* handlers test neither the status of a provider response nor catch what
\* httpx and .json() raise; iterating GitHub's error object yields its keys,
\* and str has no .get.
CallbackFailure(provider, outcome) ==
    CASE outcome \in {"exchange_timeout", "exchange_not_json",
                      "profile_timeout", "profile_not_json"}
           -> InternalServerError
      [] outcome = "exchange_no_token" -> ProviderError(provider)
      [] outcome = "profile_rejected"
           -> IF provider = "google" THEN MissingEmailClaim(provider)
                                     ELSE InternalServerError
      [] outcome = "profile_no_email" -> MissingEmailClaim(provider)
      [] outcome = "emails_rejected" -> InternalServerError

oauth_callback_failed(p) ==
    /\ pc[p] = "idle"
    /\ \E provider \in Providers :
         \E outcome \in ProviderOutcomes(provider) :
            AnswerAtOnce(p, Request(provider, "", NULL, "", <<"code", outcome>>),
                         CallbackFailure(provider, outcome))
    /\ UNCHANGED <<users, now, nextUuid, requireVerification,
                   consumedV, consumedR>>

\* a callback that marks the record it finds as verified
social_select_verifying(p) ==
    /\ pc[p] = "idle"
    /\ \E e \in Emails, n \in Names :
         LET r == Request("social", e, NULL, n, NULL)
             id == find_by_email(users, e)
         IN IF id # 0
            THEN /\ AnswerAtOnce(p, r, SocialRedirect(
                                   create_access_token(users[id].email, now)))
                 /\ users' = [users EXCEPT ![id] = VerifySet(@)]
            ELSE /\ UuidBudget
                 /\ Len(users) < MaxUsers
                 /\ Begin(p, r, "social_insert", 0)
                 /\ UNCHANGED users
    /\ UNCHANGED <<now, nextUuid, requireVerification, consumedV, consumedR>>

social_select(p) ==
    /\ pc[p] = "idle"
    /\ \E e \in Emails, n \in Names :
         LET r == Request("social", e, NULL, n, NULL)
             id == find_by_email(users, e)
         IN IF id # 0
            THEN AnswerAtOnce(p, r, SocialRedirect(
                                create_access_token(users[id].email, now)))
            ELSE /\ UuidBudget
                 /\ Len(users) < MaxUsers
                 /\ Begin(p, r, "social_insert", 0)
    /\ UNCHANGED <<users, now, nextUuid, requireVerification,
                   consumedV, consumedR>>

social_insert(p) ==
    /\ pc[p] = "social_insert"
    /\ LET random_password == uuid4(nextUuid)
           row == SocialRow(req[p].email, get_password_hash(random_password),
                            req[p].full_name)
       IN IF UniqueViolation(users, req[p].email)
          THEN /\ Finish(p, req[p], InternalServerError)
               /\ UNCHANGED users
          ELSE /\ users' = Append(users, row)
               /\ Finish(p, req[p], SocialRedirect(
                              create_access_token(req[p].email, now)))
    /\ nextUuid' = nextUuid + 1
    /\ UNCHANGED <<now, requireVerification, consumedV, consumedR>>

\* ------------------------------------------------------------ /users/me
\* the bearer tokens a client can present: the session token it holds and
\* one that is not signed
PresentableSessions == ({session} \ {NULL}) \cup {BadToken}

read_users_me(p) ==
    /\ pc[p] = "idle"
    /\ \E token \in PresentableSessions :
         LET r == Request("users_me", "", NULL, "", token)
             id == get_current_user(users, token, now)
         IN IF id = 0
            THEN AnswerAtOnce(p, r, InvalidSession)
            ELSE AnswerAtOnce(p, r, ProfileResponse(users, id))
    /\ UNCHANGED <<users, now, nextUuid, requireVerification,
                   consumedV, consumedR>>

\* the response has been sent
Respond ==
    /\ out # NoOut
    /\ out' = NoOut
    /\ UNCHANGED <<users, now, nextUuid, requireVerification, pc, req, loc,
                   consumedV, consumedR, session, startup>>

\* the response has been sent and the client keeps the session token in it
keep_session ==
    /\ out.resp.access_token # NULL
    /\ session' = out.resp.access_token
    /\ out' = NoOut
    /\ UNCHANGED <<users, now, nextUuid, requireVerification, pc, req, loc,
                   consumedV, consumedR, startup>>

\* datetime.utcnow() advances.  A step of the clock is longer than an hour
\* and no handler runs that long (its statements follow one another and the
\* provider calls time out after 20 s): none is in flight across a step.
Tick ==
    /\ \E d \in TickSteps :
         /\ now + d <= MaxTime
         /\ now' = now + d
    /\ Quiet
    /\ out = NoOut
    /\ UNCHANGED <<users, nextUuid, requireVerification, pc, req, loc, out,
                   consumedV, consumedR, session, startup>>

Next ==
    \/ \E p \in Procs : login_for_access_token(p)
    \/ \E p \in Procs : register_select(p)
    \/ \E p \in Procs : register_insert(p)
    \/ \E p \in Procs : verify_email_select(p)
    \/ \E p \in Procs : verify_email_update(p)
    \/ \E p \in Procs : forgot_password_select(p)
    \/ \E p \in Procs : forgot_password_update(p)
    \/ \E p \in Procs : reset_password_select(p)
    \/ \E p \in Procs : reset_password_update(p)
    \/ \E p \in Procs : social_select(p)
    \/ \E p \in Procs : social_insert(p)
    \/ \E p \in Procs : oauth_callback_failed(p)
    \/ Respond
    \/ Tick

Spec == Init /\ [][Next]_vars

\* the service with REQUIRE_EMAIL_VERIFICATION off and a client that keeps
\* session tokens and presents them to /users/me
InitSession == Init /\ ~requireVerification

NextSession ==
    \/ \E p \in Procs : login_for_access_token(p)
    \/ \E p \in Procs : register_select(p)
    \/ \E p \in Procs : register_insert(p)
    \/ \E p \in Procs : forgot_password_select(p)
    \/ \E p \in Procs : forgot_password_update(p)
    \/ \E p \in Procs : reset_password_select(p)
    \/ \E p \in Procs : reset_password_update(p)
    \/ \E p \in Procs : social_select(p)
    \/ \E p \in Procs : social_insert(p)
    \/ \E p \in Procs : read_users_me(p)
    \/ Respond
    \/ keep_session
    \/ Tick

SpecSession == InitSession /\ [][NextSession]_vars

\* ------------------------------------------ startup and an unreachable store
\* a startup handler that re-raises the last error after its retries
startup_init_db_reraise ==
    /\ boot = "starting"
    /\ attempt' = attempt + 1
    /\ boot' = IF dbUp THEN "serving"
               ELSE IF attempt' = STARTUP_ATTEMPTS THEN "aborted"
                    ELSE "starting"
    /\ UNCHANGED <<users, now, nextUuid, requireVerification, pc, req, loc,
                   out, consumedV, consumedR, session, dbUp>>

\* one turn of the loop of startup_init_db: init_db_once() returns and so
\* does the handler, or it raises, the handler sleeps and, after the last
\* turn, prints its warning and returns
startup_init_db ==
    /\ boot = "starting"
    /\ attempt' = attempt + 1
    /\ boot' = IF dbUp \/ attempt' = STARTUP_ATTEMPTS THEN "serving"
               ELSE "starting"
    /\ UNCHANGED <<users, now, nextUuid, requireVerification, pc, req, loc,
                   out, consumedV, consumedR, session, dbUp>>

\* the MySQL server becomes reachable or unreachable
db_changes ==
    /\ dbUp' = ~dbUp
    /\ UNCHANGED <<users, now, nextUuid, requireVerification, pc, req, loc,
                   out, consumedV, consumedR, session, boot, attempt>>

\* GET /health: no connection is opened
health(p) ==
    /\ boot = "serving"
    /\ pc[p] = "idle"
    /\ out = NoOut
    /\ out' = [req |-> Request("health", "", NULL, "", NULL),
               resp |-> HealthOk]
    /\ UNCHANGED <<users, now, nextUuid, requireVerification, pc, req, loc,
                   consumedV, consumedR, session, startup>>

\* the requests whose handler opens a connection first (a /users/me that
\* presents a token get_current_user decodes)
StoreRequests ==
    {Request("login", e, pw, "", NULL) : e \in Emails, pw \in Passwords}
    \cup {Request("register", e, pw, n, NULL) :
            e \in Emails, pw \in Passwords, n \in Names}
    \cup {Request("verify_email", "", NULL, "", t) : t \in PresentableTokens}
    \cup {Request("forgot_password", e, NULL, "", NULL) : e \in Emails}
    \cup {Request("reset_password", "", pw, "", t) :
            t \in PresentableTokens, pw \in Passwords}
    \cup {Request("social", e, NULL, n, NULL) : e \in Emails, n \in Names}
    \cup {Request("users_me", "", NULL, "", create_access_token(e, now)) :
            e \in Emails}

\* a handler's get_db_connection() raises while the server is unreachable
store_unavailable(p) ==
    /\ boot = "serving"
    /\ pc[p] = "idle"
    /\ ~dbUp
    /\ out = NoOut
    /\ \E r \in StoreRequests : out' = [req |-> r, resp |-> StoreUnavailable]
    /\ UNCHANGED <<users, now, nextUuid, requireVerification, pc, req, loc,
                   consumedV, consumedR, session, startup>>

\* the process starts; the table may or may not be reachable
InitStartup ==
    /\ users = <<>>
    /\ now = 0
    /\ nextUuid = 1
    /\ requireVerification \in BOOLEAN
    /\ pc = [p \in Procs |-> "idle"]
    /\ req = [p \in Procs |-> NoReq]
    /\ loc = [p \in Procs |-> 0]
    /\ out = NoOut
    /\ consumedV = {}
    /\ consumedR = {}
    /\ session = NULL
    /\ boot = "starting"
    /\ attempt = 0
    /\ dbUp \in BOOLEAN

NextStartup ==
    \/ startup_init_db
    \/ db_changes
    \/ \E p \in Procs : health(p)
    \/ \E p \in Procs : store_unavailable(p)
    \/ Respond

\* time.sleep(2) returns and connect() returns or raises: the loop goes on
SpecStartup ==
    InitStartup /\ [][NextStartup]_vars /\ WF_vars(startup_init_db)

TypeOK ==
    /\ now \in 0..MaxTime
    /\ nextUuid \in 1..(MaxUuid + 1)
    /\ Len(users) <= MaxUsers
    /\ \A p \in Procs : pc[p] \in {"idle", "register_insert",
                                   "verify_update", "forgot_update",
                                   "reset_update", "social_insert"}
\* ======================================================================
\* Properties
\* ======================================================================

\* a step in which some request is answered
Answered == out = NoOut /\ out' # NoOut

\* a step in which a request arrives and is answered at once, by its SELECT
AnsweredAtOnce == Answered /\ pc' = pc

\* C1: when two verify_email requests present the same valid verification
\* token concurrently, exactly one succeeds: a verify_email never succeeds
\* with a token that another verify_email has already consumed.
C1_ExactlyOneVerifySucceeds ==
    [][\A p \in Procs :
         (pc[p] = "verify_update" /\ pc'[p] = "idle"
            /\ out'.resp = VerifiedRedirect)
         => req[p].token \notin consumedV]_vars

\* C2: when two reset_password requests present the same valid, unexpired
\* reset token concurrently, exactly one succeeds and changes the password:
\* a reset never succeeds with a token another reset has already consumed.
C2_ExactlyOneResetSucceeds ==
    [][\A p \in Procs :
         (pc[p] = "reset_update" /\ pc'[p] = "idle" /\ out'.resp = ResetOk)
         => req[p].token \notin consumedR]_vars

\* C3: a register request whose email is held by a record that another
\* register created (here: its password is a client's and no reset has
\* replaced it), also one that lost the race after passing the existence
\* pre-check, ends in DuplicateIdentity (or is itself the one that succeeded),
\* never in another failure.
C3_RaceLoserGetsDuplicateIdentity ==
    LET id == find_by_email(users, out.req.email)
    IN (/\ out.req.op = "register"
        /\ id # 0
        /\ consumedR = {}
        /\ users[id].hashed_password[2] \in Passwords)
       => out.resp \in {RegisterOk(requireVerification), DuplicateIdentity}

\* C4: in every reachable state no two user records have the same email.
C4_EmailUnique ==
    \A i, j \in DOMAIN users : users[i].email = users[j].email => i = j

\* C4 witness: two records are stored and an INSERT racing on one of their
\* emails has just been rejected by the store.
C4_Witness ==
    /\ Len(users) = 2
    /\ out.req.op \in {"register", "social"}
    /\ out.resp = InternalServerError

\* C5: in every reachable state, reset_token and reset_token_expires of a
\* record are both present or both absent.
C5_ResetPairTogether ==
    \A i \in DOMAIN users :
        (users[i].reset_token = NULL) <=> (users[i].reset_token_expires = NULL)

\* C5 witness: a reset has been confirmed (pair cleared) and a record holds
\* a pending pair from a later request.
C5_Witness ==
    /\ consumedR # {}
    /\ \E i \in DOMAIN users :
         /\ users[i].reset_token # NULL
         /\ users[i].reset_token_expires # NULL
    /\ \E i \in DOMAIN users : users[i].reset_token = NULL

\* C6: no record is ever verified while carrying a verification token, and
\* a record just inserted by register under the verification-required
\* policy has a verification token and is_verified = FALSE.
C6_VerifiedCarriesNoToken ==
    /\ [](\A i \in DOMAIN users :
            ~(users[i].is_verified /\ users[i].verification_token # NULL))
    /\ [][\A p \in Procs :
            (requireVerification /\ pc[p] = "register_insert"
               /\ pc'[p] = "idle" /\ out'.resp = RegisterOk(TRUE))
            => /\ Len(users') = Len(users) + 1
               /\ users'[Len(users')].email = req[p].email
               /\ users'[Len(users')].verification_token # NULL
               /\ ~users'[Len(users')].is_verified]_vars

\* C6 witness: under the policy one record has been verified by its token
\* and another is still unverified with its token pending.
C6_Witness ==
    /\ requireVerification
    /\ consumedV # {}
    /\ \E i, j \in DOMAIN users :
         /\ users[i].is_verified /\ users[i].verification_token = NULL
         /\ users[i].hashed_password[2] \in Passwords
         /\ ~users[j].is_verified /\ users[j].verification_token # NULL

\* C7: a single-use token cannot be replayed: a verify_email presented after
\* a verify_email with the same token has succeeded fails with InvalidToken,
\* and a reset_password presented after a reset_password with the same token
\* has succeeded fails with InvalidToken and leaves the table unchanged.
C7_NoReplay ==
    [][/\ \A p \in Procs :
            (pc[p] = "idle" /\ pc'[p] = "verify_update")
            => req'[p].token \notin consumedV
       /\ \A p \in Procs :
            (pc[p] = "idle" /\ pc'[p] = "reset_update")
            => req'[p].token \notin consumedR
       /\ (AnsweredAtOnce /\ out'.req.op = "verify_email"
             /\ out'.req.token \in consumedV)
          => (out'.resp = InvalidVerificationToken /\ users' = users)
       /\ (AnsweredAtOnce /\ out'.req.op = "reset_password"
             /\ out'.req.token \in consumedR)
          => (out'.resp = InvalidToken /\ users' = users)]_vars

\* C7 witness: a verification token has been consumed, and a reset token
\* that was consumed has just been presented again and refused.
C7_Witness ==
    /\ consumedV # {}
    /\ out.req.op = "reset_password"
    /\ out.req.token \in consumedR
    /\ out.resp = InvalidToken

\* C8: login gives the same response (status, body shape, text, headers)
\* for an email with no record as for an email with a record and a password
\* that does not match.
C8_LoginIndistinguishable ==
    \A e1, e2 \in Emails : \A pw1, pw2 \in Passwords :
        (/\ find_by_email(users, e1) = 0
         /\ find_by_email(users, e2) # 0
         /\ ~verify_password(pw2,
                users[find_by_email(users, e2)].hashed_password))
        => LoginResponse(users, e1, pw1, requireVerification, now)
             = LoginResponse(users, e2, pw2, requireVerification, now)

\* C8 witness: a login with a wrong password for a stored email has just
\* been refused, while another email has no record.
C8_Witness ==
    /\ out.req.op = "login"
    /\ out.resp = InvalidCredentials
    /\ find_by_email(users, out.req.email) # 0
    /\ ~verify_password(out.req.password,
            users[find_by_email(users, out.req.email)].hashed_password)
    /\ \E e \in Emails : find_by_email(users, e) = 0

\* C9: under the verification-required policy register leaves the record
\* unverified and a login with its password fails with NotVerified; a
\* successful verify_email sets is_verified, which is never unset, and from
\* then on a login with the record's password returns a session token whose
\* subject is that email and whose expiry lies in the future.
C9_VerifyThenLogin ==
    [][/\ \A p \in Procs :
            (requireVerification /\ pc[p] = "register_insert"
               /\ pc'[p] = "idle" /\ Len(users') > Len(users))
            => ~users'[Len(users')].is_verified
       /\ \A p \in Procs :
            (pc[p] = "verify_update" /\ pc'[p] = "idle")
            => /\ users[loc[p]].verification_token \in {req[p].token, NULL}
               /\ users'[loc[p]].is_verified
       /\ \A i \in DOMAIN users :
            users[i].is_verified
            => (i \in DOMAIN users' /\ users'[i].is_verified
                  /\ users'[i].email = users[i].email)
       /\ (Answered /\ out'.req.op = "login")
          => LET id == find_by_email(users, out'.req.email)
             IN (/\ id # 0
                 /\ verify_password(out'.req.password,
                                    users[id].hashed_password))
                => IF requireVerification /\ ~users[id].is_verified
                   THEN out'.resp = NotVerified
                   ELSE /\ out'.resp.status = 200
                        /\ out'.resp.access_token[1] = out'.req.email
                        /\ out'.resp.access_token[2] > now]_vars

\* C9 witness: under the policy a locally registered record has been
\* verified by its token and a login with its password has just been given
\* a session token.
C9_Witness ==
    /\ requireVerification
    /\ consumedV # {}
    /\ out.req.op = "login"
    /\ out.resp.status = 200
    /\ out.resp.access_token # NULL
    /\ LET id == find_by_email(users, out.req.email)
       IN /\ id # 0
          /\ users[id].hashed_password = get_password_hash(out.req.password)
          /\ users[id].is_verified

\* C10: forgot_password answers with the same generic confirmation whether
\* or not the email has a record; without a record the table is unchanged,
\* with one its reset_token and reset_token_expires are both set, the expiry
\* to now + 15 minutes, and nothing else in the table changes.
C10_ForgotGeneric ==
    [][(Answered /\ out'.req.op = "forgot_password")
       => LET id == find_by_email(users, out'.req.email)
          IN /\ out'.resp = ForgotOk
             /\ id = 0 => users' = users
             /\ id # 0 =>
                  /\ users'[id].reset_token # NULL
                  /\ users'[id].reset_token # users[id].reset_token
                  /\ users'[id].reset_token_expires
                       = datetime(now + RESET_TOKEN_MINUTES)
                  /\ users' = [users EXCEPT
                        ![id] = [@ EXCEPT
                           !.reset_token = users'[id].reset_token,
                           !.reset_token_expires =
                               users'[id].reset_token_expires]]]_vars

\* C10 witness: a forgot_password for a stored email has just been answered
\* with the generic confirmation and the record holds the pair, while
\* another email has no record.
C10_Witness ==
    /\ out.req.op = "forgot_password"
    /\ out.resp = ForgotOk
    /\ find_by_email(users, out.req.email) # 0
    /\ users[find_by_email(users, out.req.email)].reset_token # NULL
    /\ users[find_by_email(users, out.req.email)].reset_token_expires
         = datetime(now + RESET_TOKEN_MINUTES)
    /\ \E e \in Emails : find_by_email(users, e) = 0

\* C11: a reset_password whose token is stored with an expiry earlier than
\* the current time is answered with TokenExpired and never reaches the
\* UPDATE: the table is unchanged, so the password hash is not modified and
\* the stale token and expiry stay in the record.
C11_ExpiredResetRefused ==
    [][/\ \A p \in Procs :
            (pc[p] = "idle" /\ pc'[p] = "reset_update")
            => ~(users[loc'[p]].reset_token_expires[2] < now)
       /\ (AnsweredAtOnce /\ out'.req.op = "reset_password")
          => LET id == find_by_reset_token(users, out'.req.token)
             IN (id # 0 /\ users[id].reset_token_expires # NULL
                   /\ users[id].reset_token_expires[2] < now)
                => /\ out'.resp = TokenExpired
                   /\ users' = users]_vars

\* C11 witness: a reset_password has just been refused with TokenExpired
\* and the record still holds the presented token with its past expiry.
C11_Witness ==
    /\ out.req.op = "reset_password"
    /\ out.resp = TokenExpired
    /\ LET id == find_by_reset_token(users, out.req.token)
       IN /\ id # 0
          /\ users[id].reset_token_expires # NULL
          /\ users[id].reset_token_expires[2] < now

\* C12: when a reset_password succeeds, in the table it leaves behind the
\* record has neither reset_token nor reset_token_expires, a login with the
\* new password succeeds (NotVerified if the policy requires a verification
\* the record lacks), and a login with the password the record had, if
\* different from the new one, fails with InvalidCredentials.
C12_ResetReplacesPassword ==
    [][\A p \in Procs :
         (pc[p] = "reset_update" /\ pc'[p] = "idle" /\ out'.resp = ResetOk)
         => LET id == loc[p]
                email == users[id].email
                new_password == req[p].password
            IN /\ users'[id].reset_token = NULL
               /\ users'[id].reset_token_expires = NULL
               /\ LoginResponse(users', email, new_password,
                                requireVerification, now)
                    = IF requireVerification /\ ~users[id].is_verified
                      THEN NotVerified
                      ELSE TokenResponse(create_access_token(email, now))
               /\ \A old_password \in Passwords \ {new_password} :
                    verify_password(old_password, users[id].hashed_password)
                    => LoginResponse(users', email, old_password,
                                     requireVerification, now)
                         = InvalidCredentials]_vars

\* C12 witness: a reset_password has just succeeded; the record has no
\* reset pair, a login with the new password would be given a session token
\* and a login with the other password would be refused.
C12_Witness ==
    /\ out.req.op = "reset_password"
    /\ out.resp = ResetOk
    /\ \E id \in DOMAIN users :
         /\ users[id].hashed_password = get_password_hash(out.req.password)
         /\ users[id].reset_token = NULL
         /\ users[id].reset_token_expires = NULL
         /\ LoginResponse(users, users[id].email, out.req.password,
                          requireVerification, now).status = 200
         /\ \E old_password \in Passwords \ {out.req.password} :
              LoginResponse(users, users[id].email, old_password,
                            requireVerification, now) = InvalidCredentials

\* C13: a session token is issued for a stored email with expiry
\* now + ACCESS_TOKEN_EXPIRE_MINUTES and records are never removed; when the
\* client presents the token it holds to /users/me, it is given the profile
\* of the token's email if the clock is before the expiry and InvalidSession
\* if the clock is after it, whatever else has happened; in particular a
\* password reset does not change what the token's validation returns.
C13_SessionValidUntilExpiry ==
    [][/\ (Answered /\ out'.resp.access_token # NULL)
          => /\ out'.resp.access_token[2] = now + ACCESS_TOKEN_EXPIRE_MINUTES
             /\ find_by_email(users', out'.resp.access_token[1]) # 0
       /\ session' # session => session' = out.resp.access_token
       /\ \A i \in DOMAIN users :
            i \in DOMAIN users' /\ users'[i].email = users[i].email
       /\ (AnsweredAtOnce /\ out'.req.op = "users_me" /\ session # NULL
             /\ out'.req.token = session)
          => LET id == find_by_email(users, session[1])
             IN /\ id # 0
                /\ now < session[2]
                     => /\ out'.resp = ProfileResponse(users, id)
                        /\ out'.resp.profile[2] = session[1]
                /\ now > session[2] => out'.resp = InvalidSession
                /\ users' = users
       /\ \A p \in Procs :
            (pc[p] = "reset_update" /\ pc'[p] = "idle" /\ session # NULL)
            => get_current_user(users', session, now)
                 = get_current_user(users, session, now)]_vars

\* C13 witness: the client has just presented the session token it holds
\* after its expiry and has been refused with InvalidSession, although the
\* token's email has a record.
C13_Witness ==
    /\ out.req.op = "users_me"
    /\ session # NULL
    /\ out.req.token = session
    /\ session[2] < now
    /\ find_by_email(users, session[1]) # 0
    /\ out.resp = InvalidSession

\* C14: an OAuth callback whose email has a record when get_or_create
\* looks it up writes nothing: every field of every record is unchanged and
\* no record is added; it answers with a session token for that record, and
\* it goes on to the INSERT only if it found no record.
C14_FindExistingUnchanged ==
    [][/\ (Answered /\ out'.req.op = "social"
             /\ find_by_email(users, out'.req.email) # 0)
          => users' = users
       /\ (AnsweredAtOnce /\ out'.req.op = "social")
          => LET id == find_by_email(users, out'.req.email)
             IN /\ id # 0
                /\ out'.resp = SocialRedirect(
                       create_access_token(users[id].email, now))
       /\ \A p \in Procs :
            (pc[p] = "idle" /\ pc'[p] = "social_insert")
            => find_by_email(users, req'[p].email) = 0]_vars

\* C14 witness: an OAuth callback has just been answered for an email whose
\* record was created by register, and that record still has its password
\* and its verification state.
C14_Witness ==
    /\ out.req.op = "social"
    /\ out.resp.status = 307
    /\ consumedR = {}
    /\ consumedV = {}
    /\ requireVerification
    /\ LET id == find_by_email(users, out.req.email)
       IN /\ id # 0
          /\ users[id].hashed_password[2] \in Passwords
          /\ ~users[id].is_verified
          /\ users[id].verification_token # NULL

\* C15: an OAuth callback that found no record and whose INSERT is accepted
\* adds exactly one record, with the provider's email, is_verified TRUE and
\* no verification token, and leaves the others as they were; it answers
\* with a session token that get_current_user resolves to the new record.
\* No response carries anything but a subject email and an expiry in its
\* token: the random password and its hash are in none.
C15_SocialCreatesVerified ==
    /\ [][\A p \in Procs :
            (pc[p] = "social_insert" /\ pc'[p] = "idle"
               /\ out'.resp # InternalServerError)
            => /\ Len(users') = Len(users) + 1
               /\ SubSeq(users', 1, Len(users)) = users
               /\ users'[Len(users')].email = req[p].email
               /\ users'[Len(users')].is_verified
               /\ users'[Len(users')].verification_token = NULL
               /\ out'.resp = SocialRedirect(
                      create_access_token(req[p].email, now))
               /\ get_current_user(users', out'.resp.access_token, now)
                    = Len(users')]_vars
    /\ [](/\ out.resp.profile = NULL
          /\ out.resp.access_token # NULL
               => /\ Len(out.resp.access_token) = 2
                  /\ out.resp.access_token[1] \in Emails
                  /\ out.resp.access_token[2] \in 0..(MaxTime + ACCESS_TOKEN_EXPIRE_MINUTES)
          /\ \A i \in DOMAIN users :
               /\ out.resp.access_token # users[i].hashed_password
               /\ out.resp.access_token # users[i].hashed_password[2])

\* C15 witness: an OAuth callback has just created the only record there
\* is, verified and with a random password, and answered with a token for it.
C15_Witness ==
    /\ out.req.op = "social"
    /\ out.resp.status = 307
    /\ Len(users) = 1
    /\ users[1].email = out.req.email
    /\ users[1].is_verified
    /\ users[1].verification_token = NULL
    /\ users[1].hashed_password = get_password_hash(uuid4(1))
    /\ get_current_user(users, out.resp.access_token, now) = 1

\* C16: an OAuth callback whose token exchange or profile fetch fails
\* (timeout, a body that is not JSON, a non-2xx answer, no access token) is
\* answered with the provider's ProviderError, and one whose profile has no
\* email, also after GitHub's fallback, with MissingEmailClaim; neither
\* carries a session token.
C16_ProviderFailureIsProviderError ==
    out.req.op \in Providers
    => /\ out.resp.access_token = NULL
       /\ out.resp = IF out.req.token[2] = "profile_no_email"
                     THEN MissingEmailClaim(out.req.op)
                     ELSE ProviderError(out.req.op)

\* C17: the UPDATE of a forgot_password stores a token never stored before
\* with expiry now + 15 minutes in place of whatever pair the record had: the
\* previous token is in no record afterwards and the new one is, unexpired.
\* Tokens enter the table only this way, so a replaced token never comes
\* back.  A reset_password presenting a token that is in no record is
\* answered InvalidToken and changes nothing; one presenting a stored,
\* unexpired token is not refused, and its UPDATE answers with success.
C17_ForgotOverwritesPending ==
    [][/\ \A p \in Procs :
            (pc[p] = "forgot_update" /\ pc'[p] = "idle")
            => LET id == loc[p]
                   old == users[id].reset_token
                   new == users'[id].reset_token
               IN /\ new = uuid4(nextUuid)
                  /\ nextUuid' = nextUuid + 1
                  /\ new # old
                  /\ \A i \in DOMAIN users : users[i].reset_token # new
                  /\ old # NULL => find_by_reset_token(users', old) = 0
                  /\ find_by_reset_token(users', new) = id
                  /\ users'[id].reset_token_expires
                       = datetime(now + RESET_TOKEN_MINUTES)
                  /\ ~token_expired(users'[id].reset_token_expires, now)
       /\ \A i \in DOMAIN users :
            users'[i].reset_token # users[i].reset_token
            => users'[i].reset_token \in {NULL, uuid4(nextUuid)}
       /\ \A n \in 1..MaxUuid :
            (n < nextUuid /\ find_by_reset_token(users, uuid4(n)) = 0)
            => find_by_reset_token(users', uuid4(n)) = 0
       /\ (AnsweredAtOnce /\ out'.req.op = "reset_password")
          => LET id == find_by_reset_token(users, out'.req.token)
             IN /\ id = 0 => (out'.resp = InvalidToken /\ users' = users)
                /\ id = 0 \/ token_expired(users[id].reset_token_expires, now)
       /\ \A p \in Procs :
            (pc[p] = "reset_update" /\ pc'[p] = "idle")
            => out'.resp = ResetOk]_vars

\* C17 witness: two forgot_password requests have drawn the only two uuids
\* (no registration drew one: the policy is off; no OAuth callback did: every
\* password is a client's and none has been reset); the second token is
\* pending in a record, and a reset_password presenting the first, which no
\* reset has consumed, has just been refused with InvalidToken.
C17_Witness ==
    /\ ~requireVerification
    /\ consumedR = {}
    /\ nextUuid = 3
    /\ \A i \in DOMAIN users : users[i].hashed_password[2] \in Passwords
    /\ \E i \in DOMAIN users :
         /\ users[i].reset_token = uuid4(2)
         /\ ~token_expired(users[i].reset_token_expires, now)
    /\ out.req.op = "reset_password"
    /\ out.req.token = uuid4(1)
    /\ out.resp = InvalidToken

\* C18: startup_init_db makes at most STARTUP_ATTEMPTS attempts, one after
\* another, returns at the first that succeeds and returns as well when the
\* last has failed: it never aborts the process and it terminates.  Once it
\* has returned no further attempt is made; /health is answered whether or
\* not the store is reachable, and a request that needs the store while it
\* is unreachable is answered with StoreUnavailable.
C18_StartupTerminates ==
    /\ [](boot \in {"starting", "serving"} /\ attempt <= STARTUP_ATTEMPTS)
    /\ [][/\ (boot = "starting" /\ attempt' # attempt)
             => /\ attempt' = attempt + 1
                /\ boot' = IF dbUp \/ attempt' = STARTUP_ATTEMPTS
                           THEN "serving" ELSE "starting"
          /\ boot = "starting" => (boot' = "starting" \/ attempt' # attempt)
          /\ boot = "serving" => (boot' = "serving" /\ attempt' = attempt)
          /\ Answered
             => /\ boot = "serving"
                /\ out'.req.op = "health" => out'.resp = HealthOk
                /\ out'.req.op # "health"
                     => (~dbUp /\ out'.resp = StoreUnavailable)
                /\ users' = users]_vars
    /\ <>(boot = "serving")

\* C18 witness: all STARTUP_ATTEMPTS attempts have failed, the handler has
\* returned, the store is still unreachable and /health has just been
\* answered.
C18_Witness ==
    /\ boot = "serving"
    /\ attempt = STARTUP_ATTEMPTS
    /\ ~dbUp
    /\ out.req.op = "health"
    /\ out.resp = HealthOk

\* C19: under the verification-required policy every response that carries
\* a session token carries one for a record whose is_verified is TRUE, also
\* the response of an OAuth callback whose email is that of a record
\* registered locally and not yet verified.
C19_NoTokenForUnverified ==
    (requireVerification /\ out.resp.access_token # NULL)
    => LET id == find_by_email(users, out.resp.access_token[1])
       IN id # 0 /\ users[id].is_verified

\* C20: the UPDATE of a reset_password changes the password only if the
\* presented token is still the record's reset_token: when a forgot_password
\* has replaced it with another token since the request read the record, the
\* request is refused with InvalidToken and the table, the newer token
\* included, is unchanged.
C20_SupersededTokenDoesNotReset ==
    [][\A p \in Procs :
         (/\ pc[p] = "reset_update"
          /\ pc'[p] = "idle"
          /\ users[loc[p]].reset_token \notin {req[p].token, NULL})
         => /\ users' = users
            /\ out'.resp = InvalidToken]_vars
====
